---- MODULE Spec2Model ----
(***************************************************************************)
(* Inventory ledger and transfer engine of the Mir01 inventory API.        *)
(*                                                                         *)
(* The model follows InventoryTransferController (store, updateStatus,     *)
(* cancel and their private handlers) statement by statement.  Each        *)
(* request is a small program over the database: one operator per group of *)
(* statements, selected by the request's program counter.  Under Spec a    *)
(* request runs from its first statement to its commit or rollback in one  *)
(* action (requests served one after another); under SpecC a transfer      *)
(* request advances statement by statement while stock adjustments are     *)
(* served in between.                                                      *)
(*                                                                         *)
(* Inventory::addStock / reduceStock / setStock, the adjustment controller *)
(* and the purchase receiving code are not part of the sources at hand;    *)
(* they are modelled from the design document (sections 4.1, 4.3 and 6).   *)
(***************************************************************************)
EXTENDS Integers, Sequences, FiniteSets, TLC

VARIABLES inventories, ledger, transfers, last, procs, acct,
          cachedToken, tokenPromise, fetches, callers, clears

vars == <<inventories, ledger, transfers, last, procs, acct,
          cachedToken, tokenPromise, fetches, callers, clears>>

\* the tables and requests of the inventory API
serverVars == <<inventories, ledger, transfers, last, procs, acct>>

\* the token cache of the API client and the calls made to it
clientVars == <<cachedToken, tokenPromise, fetches, callers, clears>>

----------------------------------------------------------------------------
(* Bounds of the model *)

\* largest quantity a request carries
MaxQty == 2
\* requests that would grow the committed ledger beyond this are not issued
MaxLedger == 3
\* transfer records that may exist
MaxTransfers == 1

Stores == {1, 2}
\* the stores where stock is adjusted and purchases are received
StockedStores == {1}
Variants == {1}
\* the transfer requests that may be in progress at once
Procs == {1}
Keys == Variants \X Stores

\* quantities a request may carry; 0 is the invalid one
Quantities == 0 .. MaxQty

----------------------------------------------------------------------------
(* Program constants *)

STATUS_PENDING == "pending"
STATUS_IN_TRANSIT == "in_transit"
STATUS_COMPLETED == "completed"
STATUS_CANCELLED == "cancelled"

\* 'in:pending,in_transit,completed,cancelled'
Statuses == {STATUS_PENDING, STATUS_IN_TRANSIT, STATUS_COMPLETED, STATUS_CANCELLED}

\* statuses a transfer may be created with (design document, section 3)
InitialStatuses == {STATUS_PENDING, STATUS_COMPLETED}

TYPE_ADDITION == "adjustment-add"
TYPE_REDUCTION == "adjustment-reduce"
TYPE_RECEIPT == "receipt"
TYPE_TRANSFER_OUT == "transfer-out"
TYPE_TRANSFER_IN == "transfer-in"
TYPE_TRANSFER_CANCEL == "transfer-cancel"

TransferTypes == {TYPE_TRANSFER_OUT, TYPE_TRANSFER_IN, TYPE_TRANSFER_CANCEL}

\* ['quantity' => 0, 'low_stock_threshold' => 5]
DefaultQuantity == 0
\* average_cost, total_purchased_quantity, total_cost_amount of a record nothing was
\* received on
NoCost == 0
LowStockThreshold == 5

\* notes a request may carry; <<>> is "no notes"
NOTE == "note"
REASON == "reason"
CANCELLED_PREFIX == "cancelled-because"

----------------------------------------------------------------------------
(* The database: db = [inv, led, tr].                                      *)
(*   inv : (variant, store) -> stock record, defined where a record exists *)
(*   led : the inventory transactions, in the order they were written      *)
(*   tr  : the transfer records, transfer id = position                    *)
(* A row written by a request that has not committed yet carries the       *)
(* request's id in tx (0 once committed), so that a rollback can undo it.  *)

NoTx == 0

Key(variant, store) == <<variant, store>>

DB(inv, led, tr) == [inv |-> inv, led |-> led, tr |-> tr]

RECURSIVE SumDeltas(_)
\* the sum of the deltas of the entries of `led`
SumDeltas(led) ==
    IF led = <<>> THEN 0 ELSE Head(led).delta + SumDeltas(Tail(led))

\* the entries of one stock record
LedgerOf(led, key) == SelectSeq(led, LAMBDA e : e.inv = key)

\* positions of the entries of one stock record
EntriesOf(led, key) == {i \in 1 .. Len(led) : led[i].inv = key}

Max(S) == CHOOSE x \in S : \A y \in S : y <= x

----------------------------------------------------------------------------
(* A request in progress: pr.  `calls` logs the stock service calls the    *)
(* request made, `undo` the transfer fields it overwrote.                  *)

Idle == [id |-> 0, pc |-> "idle", op |-> "none", action |-> "none", tid |-> 0,
         new |-> "", old |-> "", notes |-> <<>>,
         from |-> 0, to |-> 0, variant |-> 0, quantity |-> 0,
         creditFails |-> FALSE, read |-> 0, undo |-> <<>>, calls |-> <<>>,
         lines |-> <<>>, freight |-> 0,
         result |-> ""]

Call(fn, key, quantity, ok) == [fn |-> fn, key |-> key, quantity |-> quantity, ok |-> ok]

Out(db, pr) == [db |-> db, pr |-> pr]

\* the two default attributes swapped
firstOrCreateDefaultsSwapped(db, key, p) ==
    IF key \in DOMAIN db.inv
    THEN db
    ELSE [db EXCEPT !.inv = (key :> [quantity |-> LowStockThreshold,
                                     low_stock_threshold |-> DefaultQuantity,
                                     averageCost |-> NoCost,
                                     cumulativeReceivedQty |-> NoCost,
                                     cumulativeCostAmount |-> NoCost,
                                     rows |-> 1,
                                     tx |-> p]) @@ @]

\* the table takes a second row for a pair that has one
insertInventoryNoUniqueKey(db, key, rec, p) ==
    IF key \in DOMAIN db.inv
    THEN [db EXCEPT !.inv[key].rows = @ + 1, !.inv[key].tx = NoTx]
    ELSE [db EXCEPT !.inv = (key :> [rec EXCEPT !.tx = p]) @@ @]

\* INSERT INTO inventories: the table is keyed uniquely by (variant, store).  For a
\* pair whose row another request wrote and has not committed the insert ends with
\* that one row, which counts as shared from here on; `rows` counts the rows of the
\* pair.
insertInventory(db, key, rec, p) ==
    IF key \in DOMAIN db.inv
    THEN [db EXCEPT !.inv[key].tx = NoTx]
    ELSE [db EXCEPT !.inv = (key :> [rec EXCEPT !.tx = p]) @@ @]

\* Inventory::firstOrCreate([variant, store], ['quantity' => 0, 'low_stock_threshold' => 5]):
\* the row of the pair if the request sees one, else an insert of the defaults.
\* The cost columns of a new record hold nothing received yet.
firstOrCreate(db, key, p) ==
    IF key \in DOMAIN db.inv /\ db.inv[key].tx \in {NoTx, p}
    THEN db
    ELSE insertInventory(db, key,
                         [quantity |-> DefaultQuantity,
                          low_stock_threshold |-> LowStockThreshold,
                          averageCost |-> NoCost,
                          cumulativeReceivedQty |-> NoCost,
                          cumulativeCostAmount |-> NoCost,
                          rows |-> 1,
                          tx |-> p], p)

Entry(key, delta, after, type, tid, p) ==
    [inv |-> key, delta |-> delta, after |-> after, type |-> type,
     transfer |-> tid, tx |-> p]


\* every credit counts as units received
addStockCountsAsReceived(db, key, quantity, tid, p, fails) ==
    IF quantity <= 0 \/ fails
    THEN [ok |-> FALSE, db |-> db]
    ELSE LET after == db.inv[key].quantity + quantity
         IN  [ok |-> TRUE,
              db |-> [db EXCEPT !.inv[key].quantity = after,
                                !.inv[key].cumulativeReceivedQty = @ + quantity,
                                !.led = Append(@, Entry(key, quantity, after,
                                                        TYPE_ADDITION, tid, p))]]

\* Stock Adjustment Service, credit: the record and its ledger entry change together.
\* `fails` injects the failure the callers test for (addStock returning false).
addStock(db, key, quantity, tid, p, fails) ==
    IF quantity <= 0 \/ fails
    THEN [ok |-> FALSE, db |-> db]
    ELSE LET after == db.inv[key].quantity + quantity
         IN  [ok |-> TRUE,
              db |-> [db EXCEPT !.inv[key].quantity = after,
                                !.led = Append(@, Entry(key, quantity, after,
                                                        TYPE_ADDITION, tid, p))]]

\* a debit that writes the quantity its caller read, not the current one
reduceStockStale(db, key, quantity, tid, p, seen) ==
    IF quantity <= 0 \/ seen < quantity
    THEN [ok |-> FALSE, db |-> db]
    ELSE LET after == seen - quantity
         IN  [ok |-> TRUE,
              db |-> [db EXCEPT !.inv[key].quantity = after,
                                !.led = Append(@, Entry(key, -quantity, after,
                                                        TYPE_REDUCTION, tid, p))]]

\* a debit larger than the stock takes what is there
reduceStockClamps(db, key, quantity, tid, p, seen) ==
    IF quantity <= 0
    THEN [ok |-> FALSE, db |-> db]
    ELSE LET after == Max({0, db.inv[key].quantity - quantity})
         IN  [ok |-> TRUE,
              db |-> [db EXCEPT !.inv[key].quantity = after,
                                !.led = Append(@, Entry(key, after - db.inv[key].quantity,
                                                        after, TYPE_REDUCTION, tid, p))]]

\* Stock Adjustment Service, debit: fails, changing nothing, when quantity > current
reduceStock(db, key, quantity, tid, p, seen) ==
    IF quantity <= 0 \/ db.inv[key].quantity < quantity
    THEN [ok |-> FALSE, db |-> db]
    ELSE LET after == db.inv[key].quantity - quantity
         IN  [ok |-> TRUE,
              db |-> [db EXCEPT !.inv[key].quantity = after,
                                !.led = Append(@, Entry(key, -quantity, after,
                                                        TYPE_REDUCTION, tid, p))]]

\* Stock Adjustment Service, set: records the signed delta as an adjustment
setStock(db, key, target, p) ==
    IF target < 0
    THEN [ok |-> FALSE, db |-> db]
    ELSE LET delta == target - db.inv[key].quantity
         IN  [ok |-> TRUE,
              db |-> [db EXCEPT !.inv[key].quantity = target,
                                !.led = Append(@, Entry(key, delta, target,
                                    IF delta >= 0 THEN TYPE_ADDITION ELSE TYPE_REDUCTION,
                                    0, p))]]

\* $inventory->transactions()->latest()->first(): the entry of the record written last
latestTransaction(led, key) == Max(EntriesOf(led, key))

\* $transaction->update(['type' => ...]) on latest()->first()
retagLatest(db, key, type) ==
    IF EntriesOf(db.led, key) = {}
    THEN db
    ELSE [db EXCEPT !.led[latestTransaction(db.led, key)].type = type]

----------------------------------------------------------------------------
(* DB::transaction: commit keeps the request's writes, an abort() or any   *)
(* other exception leaving the closure rolls all of them back.             *)

RECURSIVE RestoreTransfers(_, _)
\* the overwritten transfer fields put back, last write first
RestoreTransfers(tr, undo) ==
    IF undo = <<>> THEN tr
    ELSE LET u == undo[Len(undo)]
         IN  RestoreTransfers([tr EXCEPT ![u.tid].status = u.status,
                                         ![u.tid].notes = u.notes],
                              SubSeq(undo, 1, Len(undo) - 1))

Rollback(db, pr) ==
    LET p == pr.id
        kept == {k \in DOMAIN db.inv : db.inv[k].tx # p}
        mine(k) == SumDeltas(SelectSeq(db.led, LAMBDA e : e.tx = p /\ e.inv = k))
        tr1 == RestoreTransfers(db.tr, pr.undo)
    IN  DB([k \in kept |-> [db.inv[k] EXCEPT !.quantity = @ - mine(k)]],
           SelectSeq(db.led, LAMBDA e : e.tx # p),
           SelectSeq(tr1, LAMBDA t : t.tx # p))

Commit(db, pr) ==
    LET p == pr.id
    IN  DB([k \in DOMAIN db.inv |-> IF db.inv[k].tx = p
                                    THEN [db.inv[k] EXCEPT !.tx = NoTx] ELSE db.inv[k]],
           [i \in 1 .. Len(db.led) |-> IF db.led[i].tx = p
                                       THEN [db.led[i] EXCEPT !.tx = NoTx] ELSE db.led[i]],
           [i \in 1 .. Len(db.tr) |-> IF db.tr[i].tx = p
                                      THEN [db.tr[i] EXCEPT !.tx = NoTx] ELSE db.tr[i]])

\* abort(code, message) inside the transaction closure
Abort(db, pr, error) ==
    Out(Rollback(db, pr), [pr EXCEPT !.pc = "done", !.result = error])

\* the closure returns its resource
Return(db, pr) ==
    Out(Commit(db, pr), [pr EXCEPT !.pc = "done", !.result = "ok"])

----------------------------------------------------------------------------
(* Conditions of the controller *)

\* the comparison written the wrong way round
InsufficientStockInverted(have, want) == have > want

\* if ($fromInventory->quantity < $quantity): the transfer is refused

InsufficientStock(have, want) == have < want

\* only the completed status is tested
IsTerminalCompletedOnly(status) == status = STATUS_COMPLETED

\* $oldStatus === STATUS_COMPLETED || $oldStatus === STATUS_CANCELLED

IsTerminal(status) == status \in {STATUS_COMPLETED, STATUS_CANCELLED}

\* InventoryTransfer::findOrFail($transfer): a record another request has not
\* committed yet is not found
Visible(db, tid, p) == tid \in 1 .. Len(db.tr) /\ db.tr[tid].tx \in {NoTx, p}

\* a handler throws: updateStatus's catch block runs next
Throw(db, pr, error) == Out(db, [pr EXCEPT !.pc = "us_catch", !.result = error])

Logged(pr, fn, key, ok) ==
    [pr EXCEPT !.calls = Append(@, Call(fn, key, pr.quantity, ok))]

----------------------------------------------------------------------------
(* store: POST /api/inventory/transfers *)


\* the quantity is not validated
store_validateAnyQuantity(db, pr) ==
    IF pr.from = pr.to \/ pr.new \notin InitialStatuses
    THEN Abort(db, pr, "ValidationError")
    ELSE Out(db, [pr EXCEPT !.pc = "st_from"])

\* InventoryTransferRequest: positive quantity, two distinct stores, a creatable status
store_validate(db, pr) ==
    IF pr.quantity < 1 \/ pr.from = pr.to \/ pr.new \notin InitialStatuses
    THEN Abort(db, pr, "ValidationError")
    ELSE Out(db, [pr EXCEPT !.pc = "st_from"])

\* the source is not checked when the transfer is created
store_fromUnchecked(db, pr) ==
    LET key == Key(pr.variant, pr.from)
        db1 == firstOrCreate(db, key, pr.id)
    IN  Out(db1, [pr EXCEPT !.pc = "st_to", !.read = db1.inv[key].quantity])

store_from(db, pr) ==
    LET key == Key(pr.variant, pr.from)
        db1 == firstOrCreate(db, key, pr.id)
    IN  IF InsufficientStock(db1.inv[key].quantity, pr.quantity)
        THEN Abort(db1, pr, "InsufficientStock")
        ELSE Out(db1, [pr EXCEPT !.pc = "st_to", !.read = db1.inv[key].quantity])

store_to(db, pr) ==
    Out(firstOrCreate(db, Key(pr.variant, pr.to), pr.id), [pr EXCEPT !.pc = "st_create"])

store_create(db, pr) ==
    LET rec == [from_store_id |-> pr.from, to_store_id |-> pr.to,
                product_variant_id |-> pr.variant, quantity |-> pr.quantity,
                status |-> pr.new, notes |-> pr.notes, tx |-> pr.id]
        db1 == [db EXCEPT !.tr = Append(@, rec)]
        pr1 == [pr EXCEPT !.tid = Len(db1.tr)]
    IN  IF pr.new = STATUS_COMPLETED
        THEN Out(db1, [pr1 EXCEPT !.pc = "st_reduce"])
        ELSE Return(db1, pr1)

store_reduce(db, pr) ==
    LET key == Key(pr.variant, pr.from)
        r == reduceStock(db, key, pr.quantity, pr.tid, pr.id, pr.read)
    IN  IF ~r.ok
        THEN Abort(r.db, Logged(pr, "reduceStock", key, FALSE), "StockOperationFailed")
        ELSE Out(r.db, [Logged(pr, "reduceStock", key, TRUE) EXCEPT !.pc = "st_add"])

store_add(db, pr) ==
    LET key == Key(pr.variant, pr.to)
        r == addStock(db, key, pr.quantity, pr.tid, pr.id, pr.creditFails)
    IN  IF ~r.ok
        THEN Out(r.db, [Logged(pr, "addStock", key, FALSE) EXCEPT !.pc = "st_comp"])
        ELSE Out(r.db, [Logged(pr, "addStock", key, TRUE) EXCEPT !.pc = "st_retag_from"])

\* the source is credited back, then abort(500)
store_compensate(db, pr) ==
    LET key == Key(pr.variant, pr.from)
        r == addStock(db, key, pr.quantity, pr.tid, pr.id, FALSE)
    IN  Abort(r.db, Logged(pr, "addStock", key, r.ok), "TransferFailed")

store_retag_from(db, pr) ==
    Out(retagLatest(db, Key(pr.variant, pr.from), TYPE_TRANSFER_OUT),
        [pr EXCEPT !.pc = "st_retag_to"])

store_retag_to(db, pr) ==
    Return(retagLatest(db, Key(pr.variant, pr.to), TYPE_TRANSFER_IN), pr)

----------------------------------------------------------------------------
(* updateStatus: PATCH /api/inventory/transfers/{id}/status *)

\* the terminal check made before the same-status check
updateStatus_findTerminalFirst(db, pr) ==
    IF ~Visible(db, pr.tid, pr.id)
    THEN Abort(db, pr, "NotFound")
    ELSE LET t == db.tr[pr.tid]
             pr1 == [pr EXCEPT !.old = t.status, !.from = t.from_store_id,
                               !.to = t.to_store_id, !.variant = t.product_variant_id,
                               !.quantity = t.quantity]
         IN  IF IsTerminal(t.status)
             THEN Abort(db, pr1, "InvalidStateTransition")
             ELSE IF t.status = pr.new
                  THEN Return(db, pr1)
                  ELSE Out(db, [pr1 EXCEPT !.pc = "us_save"])

updateStatus_find(db, pr) ==
    IF ~Visible(db, pr.tid, pr.id)
    THEN Abort(db, pr, "NotFound")
    ELSE LET t == db.tr[pr.tid]
             pr1 == [pr EXCEPT !.old = t.status, !.from = t.from_store_id,
                               !.to = t.to_store_id, !.variant = t.product_variant_id,
                               !.quantity = t.quantity]
         IN  IF t.status = pr.new
             THEN Return(db, pr1)
             ELSE IF IsTerminal(t.status)
                  THEN Abort(db, pr1, "InvalidStateTransition")
                  ELSE Out(db, [pr1 EXCEPT !.pc = "us_save"])

\* the try block: which handler moves the stock
dispatchStockMovement(old, new) ==
    IF new = STATUS_IN_TRANSIT /\ old = STATUS_PENDING
    THEN "it_from"
    ELSE IF new = STATUS_COMPLETED
         THEN IF old = STATUS_PENDING
              THEN "ct_from"
              ELSE IF old = STATUS_IN_TRANSIT THEN "cf_to" ELSE "none"
         ELSE "none"

\* $transferModel->status = $newStatus; notes if the request has them; save()
updateStatus_save(db, pr) ==
    LET t == db.tr[pr.tid]
        db1 == [db EXCEPT !.tr[pr.tid].status = pr.new,
                          !.tr[pr.tid].notes = IF pr.notes # <<>> THEN pr.notes ELSE @]
        pr1 == [pr EXCEPT !.undo = Append(@, [tid |-> pr.tid, status |-> t.status,
                                              notes |-> t.notes])]
        next == dispatchStockMovement(pr.old, pr.new)
    IN  IF next = "none" THEN Return(db1, pr1) ELSE Out(db1, [pr1 EXCEPT !.pc = next])

\* the exception is swallowed: the request goes on to commit
updateStatus_catchSwallows(db, pr) == Return(db, pr)

\* catch (\Exception $e): the old status is saved again, then abort(400)
updateStatus_catch(db, pr) ==
    LET t == db.tr[pr.tid]
        db1 == [db EXCEPT !.tr[pr.tid].status = pr.old]
        pr1 == [pr EXCEPT !.undo = Append(@, [tid |-> pr.tid, status |-> t.status,
                                              notes |-> t.notes])]
    IN  Abort(db1, pr1, pr.result)

----------------------------------------------------------------------------
(* handleInTransitTransfer: pending -> in_transit *)

handleInTransitTransfer_from(db, pr) ==
    LET key == Key(pr.variant, pr.from)
        db1 == firstOrCreate(db, key, pr.id)
    IN  IF InsufficientStock(db1.inv[key].quantity, pr.quantity)
        THEN Throw(db1, pr, "InsufficientStock")
        ELSE Out(db1, [pr EXCEPT !.pc = "it_reduce", !.read = db1.inv[key].quantity])

handleInTransitTransfer_reduce(db, pr) ==
    LET key == Key(pr.variant, pr.from)
        r == reduceStock(db, key, pr.quantity, pr.tid, pr.id, pr.read)
    IN  IF ~r.ok
        THEN Throw(r.db, Logged(pr, "reduceStock", key, FALSE), "StockOperationFailed")
        ELSE Out(r.db, [Logged(pr, "reduceStock", key, TRUE) EXCEPT !.pc = "it_retag"])

\* the transfer-out tag lands on the destination's latest entry
handleInTransitTransfer_retagWrongRecord(db, pr) ==
    Return(retagLatest(db, Key(pr.variant, pr.to), TYPE_TRANSFER_OUT), pr)

handleInTransitTransfer_retag(db, pr) ==
    Return(retagLatest(db, Key(pr.variant, pr.from), TYPE_TRANSFER_OUT), pr)

----------------------------------------------------------------------------
(* handleCompletedTransfer: pending -> completed *)

handleCompletedTransfer_from(db, pr) ==
    LET key == Key(pr.variant, pr.from)
        db1 == firstOrCreate(db, key, pr.id)
    IN  Out(db1, [pr EXCEPT !.pc = "ct_to", !.read = db1.inv[key].quantity])

handleCompletedTransfer_to(db, pr) ==
    LET db1 == firstOrCreate(db, Key(pr.variant, pr.to), pr.id)
    IN  IF InsufficientStock(pr.read, pr.quantity)
        THEN Throw(db1, pr, "InsufficientStock")
        ELSE Out(db1, [pr EXCEPT !.pc = "ct_reduce"])

handleCompletedTransfer_reduce(db, pr) ==
    LET key == Key(pr.variant, pr.from)
        r == reduceStock(db, key, pr.quantity, pr.tid, pr.id, pr.read)
    IN  IF ~r.ok
        THEN Throw(r.db, Logged(pr, "reduceStock", key, FALSE), "StockOperationFailed")
        ELSE Out(r.db, [Logged(pr, "reduceStock", key, TRUE) EXCEPT !.pc = "ct_add"])

handleCompletedTransfer_add(db, pr) ==
    LET key == Key(pr.variant, pr.to)
        r == addStock(db, key, pr.quantity, pr.tid, pr.id, pr.creditFails)
    IN  IF ~r.ok
        THEN Out(r.db, [Logged(pr, "addStock", key, FALSE) EXCEPT !.pc = "ct_comp"])
        ELSE Out(r.db, [Logged(pr, "addStock", key, TRUE) EXCEPT !.pc = "ct_retag_from"])

\* the failed credit is reported without crediting the source back
handleCompletedTransfer_noCompensation(db, pr) ==
    Throw(db, pr, "TransferFailed")

\* the source is credited back, then the exception is thrown
handleCompletedTransfer_compensate(db, pr) ==
    LET key == Key(pr.variant, pr.from)
        r == addStock(db, key, pr.quantity, pr.tid, pr.id, FALSE)
    IN  Throw(r.db, Logged(pr, "addStock", key, r.ok), "TransferFailed")

handleCompletedTransfer_retag_from(db, pr) ==
    Out(retagLatest(db, Key(pr.variant, pr.from), TYPE_TRANSFER_OUT),
        [pr EXCEPT !.pc = "ct_retag_to"])

\* the destination entry keeps the type the credit wrote
handleCompletedTransfer_retag_toForgotten(db, pr) == Return(db, pr)

handleCompletedTransfer_retag_to(db, pr) ==
    Return(retagLatest(db, Key(pr.variant, pr.to), TYPE_TRANSFER_IN), pr)

----------------------------------------------------------------------------
(* handleCompletedFromInTransit: in_transit -> completed *)

handleCompletedFromInTransit_to(db, pr) ==
    Out(firstOrCreate(db, Key(pr.variant, pr.to), pr.id), [pr EXCEPT !.pc = "cf_add"])

\* the arriving stock credited to the store it came from
handleCompletedFromInTransit_addToSource(db, pr) ==
    LET key == Key(pr.variant, pr.from)
        r == addStock(db, key, pr.quantity, pr.tid, pr.id, pr.creditFails)
    IN  IF ~r.ok
        THEN Throw(r.db, Logged(pr, "addStock", key, FALSE), "StockOperationFailed")
        ELSE Out(r.db, [Logged(pr, "addStock", key, TRUE) EXCEPT !.pc = "cf_retag"])

handleCompletedFromInTransit_add(db, pr) ==
    LET key == Key(pr.variant, pr.to)
        r == addStock(db, key, pr.quantity, pr.tid, pr.id, pr.creditFails)
    IN  IF ~r.ok
        THEN Throw(r.db, Logged(pr, "addStock", key, FALSE), "StockOperationFailed")
        ELSE Out(r.db, [Logged(pr, "addStock", key, TRUE) EXCEPT !.pc = "cf_retag"])

handleCompletedFromInTransit_retag(db, pr) ==
    Return(retagLatest(db, Key(pr.variant, pr.to), TYPE_TRANSFER_IN), pr)

----------------------------------------------------------------------------
(* cancel: PATCH /api/inventory/transfers/{id}/cancel *)

\* the stock is restored whatever the status was
cancel_findAlwaysRestores(db, pr) ==
    IF ~Visible(db, pr.tid, pr.id)
    THEN Abort(db, pr, "NotFound")
    ELSE LET t == db.tr[pr.tid]
             pr1 == [pr EXCEPT !.old = t.status, !.from = t.from_store_id,
                               !.to = t.to_store_id, !.variant = t.product_variant_id,
                               !.quantity = t.quantity]
         IN  IF IsTerminal(t.status)
             THEN Abort(db, pr1, "InvalidStateTransition")
             ELSE Out(db, [pr1 EXCEPT !.pc = "rs_from"])

cancel_find(db, pr) ==
    IF ~Visible(db, pr.tid, pr.id)
    THEN Abort(db, pr, "NotFound")
    ELSE LET t == db.tr[pr.tid]
             pr1 == [pr EXCEPT !.old = t.status, !.from = t.from_store_id,
                               !.to = t.to_store_id, !.variant = t.product_variant_id,
                               !.quantity = t.quantity]
         IN  IF IsTerminal(t.status)
             THEN Abort(db, pr1, "InvalidStateTransition")
             ELSE IF t.status = STATUS_IN_TRANSIT
                  THEN Out(db, [pr1 EXCEPT !.pc = "rs_from"])
                  ELSE Out(db, [pr1 EXCEPT !.pc = "cn_save"])

\* status = cancelled; notes = "cancelled, reason" followed by the original notes
cancel_save(db, pr) ==
    LET t == db.tr[pr.tid]
        db1 == [db EXCEPT !.tr[pr.tid].status = STATUS_CANCELLED,
                          !.tr[pr.tid].notes = <<CANCELLED_PREFIX>> \o pr.notes \o @]
        pr1 == [pr EXCEPT !.undo = Append(@, [tid |-> pr.tid, status |-> t.status,
                                              notes |-> t.notes])]
    IN  Return(db1, pr1)

restoreInventoryFromInTransit_from(db, pr) ==
    Out(firstOrCreate(db, Key(pr.variant, pr.from), pr.id), [pr EXCEPT !.pc = "rs_add"])

\* the exception reaches cancel's catch block: abort(400)
restoreInventoryFromInTransit_add(db, pr) ==
    LET key == Key(pr.variant, pr.from)
        r == addStock(db, key, pr.quantity, pr.tid, pr.id, pr.creditFails)
    IN  IF ~r.ok
        THEN Abort(r.db, Logged(pr, "addStock", key, FALSE), "StockOperationFailed")
        ELSE Out(r.db, [Logged(pr, "addStock", key, TRUE) EXCEPT !.pc = "rs_retag"])

\* the restored stock tagged as an incoming transfer
restoreInventoryFromInTransit_retagTransferIn(db, pr) ==
    Out(retagLatest(db, Key(pr.variant, pr.from), TYPE_TRANSFER_IN),
        [pr EXCEPT !.pc = "cn_save"])

restoreInventoryFromInTransit_retag(db, pr) ==
    Out(retagLatest(db, Key(pr.variant, pr.from), TYPE_TRANSFER_CANCEL),
        [pr EXCEPT !.pc = "cn_save"])

----------------------------------------------------------------------------
(* adjustStock and receivePurchase: each one unit of work *)

\* InventoryAdjustmentRequest::rules: 'action' in add,reduce,set; 'quantity' min:1
AdjustActions == {"add", "reduce", "set"}

MinQuantity == 1

\* the unit cost of the lines received in Spec, in minor units
UnitCost == 10000

adjustStock(db, pr) ==
    IF pr.action \notin AdjustActions \/ pr.quantity < MinQuantity
    THEN Abort(db, pr, "ValidationError")
    ELSE LET key == Key(pr.variant, pr.from)
             db1 == firstOrCreate(db, key, pr.id)
             now == db1.inv[key].quantity
         IN  CASE pr.action = "add" ->
                    LET r == addStock(db1, key, pr.quantity, 0, pr.id, FALSE)
                    IN  Return(r.db, Logged(pr, "addStock", key, r.ok))
               [] pr.action = "reduce" ->
                    LET r == reduceStock(db1, key, pr.quantity, 0, pr.id, now)
                    IN  IF r.ok
                        THEN Return(r.db, Logged(pr, "reduceStock", key, TRUE))
                        ELSE Abort(r.db, Logged(pr, "reduceStock", key, FALSE),
                                   "InsufficientStock")
               [] pr.action = "set" ->
                    LET r == setStock(db1, key, pr.quantity, pr.id)
                    IN  Return(r.db, [pr EXCEPT !.calls = Append(@,
                                Call("addStock", key, pr.quantity - now, r.ok))])

\* round-half-up of n / d to a whole minor unit (n >= 0, d > 0)
RoundHalfUp(n, d) == (2 * n + d) \div (2 * d)

\* a receiving line as submitted: nothing allocated to it yet
Line(quantity, unitCost) ==
    [quantity |-> quantity, unitCost |-> unitCost, allocatedFreight |-> 0]

RECURSIVE TotalQty(_)
\* totalQty of a receiving event
TotalQty(lines) ==
    IF lines = <<>> THEN 0 ELSE Head(lines).quantity + TotalQty(Tail(lines))

RECURSIVE TotalAllocated(_)
TotalAllocated(lines) ==
    IF lines = <<>> THEN 0 ELSE Head(lines).allocatedFreight + TotalAllocated(Tail(lines))

\* every line rounds its own share, the residual is not folded anywhere
allocateFreightNoResidual(lines, freight) ==
    [i \in 1 .. Len(lines) |->
        [lines[i] EXCEPT !.allocatedFreight =
            RoundHalfUp(freight * lines[i].quantity, TotalQty(lines))]]

\* line.allocatedFreight = totalFreight * (line.qty / totalQty), rounded half-up;
\* the last line takes what the others left of totalFreight
allocateFreight(lines, freight) ==
    LET n == Len(lines)
        rounded == [i \in 1 .. n |->
                      [lines[i] EXCEPT !.allocatedFreight =
                          RoundHalfUp(freight * lines[i].quantity, TotalQty(lines))]]
    IN  [rounded EXCEPT ![n].allocatedFreight =
            freight - TotalAllocated(SubSeq(rounded, 1, n - 1))]

\* totalLandedCost = unitCost * quantity + allocatedFreight
totalLandedCost(line) == line.unitCost * line.quantity + line.allocatedFreight

\* the average is taken over the units on hand, not over the units received
updateAverageCostOverStock(rec, line) ==
    LET qty == rec.cumulativeReceivedQty + line.quantity
        cost == rec.cumulativeCostAmount + totalLandedCost(line)
    IN  [rec EXCEPT !.cumulativeReceivedQty = qty,
                    !.cumulativeCostAmount = cost,
                    !.averageCost = RoundHalfUp(cost, rec.quantity)]

\* on receipt: cumulativeReceivedQty += qty; cumulativeCostAmount += landed cost;
\* averageCost = cumulativeCostAmount / cumulativeReceivedQty
updateAverageCost(rec, line) ==
    LET qty == rec.cumulativeReceivedQty + line.quantity
        cost == rec.cumulativeCostAmount + totalLandedCost(line)
    IN  [rec EXCEPT !.cumulativeReceivedQty = qty,
                    !.cumulativeCostAmount = cost,
                    !.averageCost = RoundHalfUp(cost, qty)]

RECURSIVE receiveLines(_, _, _, _)
\* each line is credited as a receipt, with its cost, on the record of its variant
receiveLines(db, key, lines, p) ==
    IF lines = <<>> THEN db
    ELSE LET r == addStock(db, key, Head(lines).quantity, 0, p, FALSE)
             db1 == retagLatest(r.db, key, TYPE_RECEIPT)
             db2 == [db1 EXCEPT !.inv[key] = updateAverageCost(@, Head(lines))]
         IN  receiveLines(db2, key, Tail(lines), p)

\* a receiving event: its lines, with the freight allocated, are credited as one
\* unit of work
receivePurchase(db, pr) ==
    IF \/ pr.lines = <<>>
       \/ pr.freight < 0
       \/ \E i \in 1 .. Len(pr.lines) :
             pr.lines[i].quantity < MinQuantity \/ pr.lines[i].unitCost < 0
    THEN Abort(db, pr, "ValidationError")
    ELSE LET key == Key(pr.variant, pr.from)
             lines == allocateFreight(pr.lines, pr.freight)
             db1 == firstOrCreate(db, key, pr.id)
         IN  Return(receiveLines(db1, key, lines, pr.id), [pr EXCEPT !.lines = lines])

----------------------------------------------------------------------------
(* One statement of a request, and a request run to its end *)

Step(db, pr) ==
    CASE pr.pc = "st_validate"   -> store_validate(db, pr)
      [] pr.pc = "st_from"       -> store_from(db, pr)
      [] pr.pc = "st_to"         -> store_to(db, pr)
      [] pr.pc = "st_create"     -> store_create(db, pr)
      [] pr.pc = "st_reduce"     -> store_reduce(db, pr)
      [] pr.pc = "st_add"        -> store_add(db, pr)
      [] pr.pc = "st_comp"       -> store_compensate(db, pr)
      [] pr.pc = "st_retag_from" -> store_retag_from(db, pr)
      [] pr.pc = "st_retag_to"   -> store_retag_to(db, pr)
      [] pr.pc = "us_find"       -> updateStatus_find(db, pr)
      [] pr.pc = "us_save"       -> updateStatus_save(db, pr)
      [] pr.pc = "us_catch"      -> updateStatus_catch(db, pr)
      [] pr.pc = "it_from"       -> handleInTransitTransfer_from(db, pr)
      [] pr.pc = "it_reduce"     -> handleInTransitTransfer_reduce(db, pr)
      [] pr.pc = "it_retag"      -> handleInTransitTransfer_retag(db, pr)
      [] pr.pc = "ct_from"       -> handleCompletedTransfer_from(db, pr)
      [] pr.pc = "ct_to"         -> handleCompletedTransfer_to(db, pr)
      [] pr.pc = "ct_reduce"     -> handleCompletedTransfer_reduce(db, pr)
      [] pr.pc = "ct_add"        -> handleCompletedTransfer_add(db, pr)
      [] pr.pc = "ct_comp"       -> handleCompletedTransfer_compensate(db, pr)
      [] pr.pc = "ct_retag_from" -> handleCompletedTransfer_retag_from(db, pr)
      [] pr.pc = "ct_retag_to"   -> handleCompletedTransfer_retag_to(db, pr)
      [] pr.pc = "cf_to"         -> handleCompletedFromInTransit_to(db, pr)
      [] pr.pc = "cf_add"        -> handleCompletedFromInTransit_add(db, pr)
      [] pr.pc = "cf_retag"      -> handleCompletedFromInTransit_retag(db, pr)
      [] pr.pc = "cn_find"       -> cancel_find(db, pr)
      [] pr.pc = "cn_save"       -> cancel_save(db, pr)
      [] pr.pc = "rs_from"       -> restoreInventoryFromInTransit_from(db, pr)
      [] pr.pc = "rs_add"        -> restoreInventoryFromInTransit_add(db, pr)
      [] pr.pc = "rs_retag"      -> restoreInventoryFromInTransit_retag(db, pr)
      [] pr.pc = "adjust"        -> adjustStock(db, pr)
      [] pr.pc = "receive"       -> receivePurchase(db, pr)

RECURSIVE Run(_, _)
Run(db, pr) ==
    IF pr.pc = "done" THEN Out(db, pr)
    ELSE LET o == Step(db, pr) IN Run(o.db, o.pr)

----------------------------------------------------------------------------
(* Requests *)

StoreNotes == {<<>>}
UpdateNotes == {<<>>, <<NOTE>>}

storeRequest(p, from, to, variant, quantity, status, notes, fails) ==
    [Idle EXCEPT !.id = p, !.pc = "st_validate", !.op = "createTransfer",
                 !.from = from, !.to = to, !.variant = variant, !.quantity = quantity,
                 !.new = status, !.notes = notes, !.creditFails = fails]

updateStatusRequest(p, tid, status, notes, fails) ==
    [Idle EXCEPT !.id = p, !.pc = "us_find", !.op = "updateTransferStatus",
                 !.tid = tid, !.new = status, !.notes = notes, !.creditFails = fails]

cancelRequest(p, tid, fails) ==
    [Idle EXCEPT !.id = p, !.pc = "cn_find", !.op = "cancelTransfer",
                 !.tid = tid, !.new = STATUS_CANCELLED, !.notes = <<REASON>>,
                 !.creditFails = fails]

adjustRequest(p, variant, store, action, quantity) ==
    [Idle EXCEPT !.id = p, !.pc = "adjust", !.op = "adjustStock", !.action = action,
                 !.from = store, !.variant = variant, !.quantity = quantity]

receiveRequest(p, variant, store, lines, freight) ==
    [Idle EXCEPT !.id = p, !.pc = "receive", !.op = "receivePurchase",
                 !.from = store, !.variant = variant, !.lines = lines,
                 !.freight = freight]

\* what a finished request leaves in `last`
Summary(pr) ==
    [op |-> pr.op, action |-> pr.action, tid |-> pr.tid, old |-> pr.old, new |-> pr.new,
     lines |-> pr.lines, freight |-> pr.freight,
     variant |-> pr.variant, from |-> pr.from, to |-> pr.to, quantity |-> pr.quantity,
     result |-> pr.result,
     calls |-> [i \in 1 .. Len(pr.calls) |->
                  <<pr.calls[i].fn,
                    IF pr.calls[i].key = Key(pr.variant, pr.from) THEN "from" ELSE "to",
                    pr.calls[i].quantity, pr.calls[i].ok>>]]

RECURSIVE NetOf(_, _)
\* the net quantity the successful stock calls of `calls` moved on `key`
NetOf(calls, key) ==
    IF calls = <<>> THEN 0
    ELSE (IF Head(calls).ok /\ Head(calls).key = key
          THEN IF Head(calls).fn = "addStock" THEN Head(calls).quantity
                                                ELSE -Head(calls).quantity
          ELSE 0) + NetOf(Tail(calls), key)

\* the stock movements of the requests that reported success
Account(a, pr) ==
    IF pr.result = "ok" THEN [k \in Keys |-> a[k] + NetOf(pr.calls, k)] ELSE a

\* the id under which a request served in one piece writes
ServeId == Cardinality(Procs) + 1

----------------------------------------------------------------------------
(* The token cache of the API client (getTokenSmart, clearTokenCache).     *)
(* A token is named after the fetch that obtained it; NoToken is null.     *)

NoToken == 0
NoPromise == 0

\* let cachedToken = null; let tokenPromise = null; nothing called yet
InitClient ==
    /\ cachedToken = NoToken
    /\ tokenPromise = NoPromise
    /\ fetches = <<>>
    /\ callers = <<>>
    /\ clears = 0

----------------------------------------------------------------------------
(* Spec: requests served one after another *)

Init ==
    /\ inventories = <<>>
    /\ ledger = <<>>
    /\ transfers = <<>>
    /\ last = Summary(Idle)
    /\ procs = [p \in Procs |-> Idle]
    /\ acct = [k \in Keys |-> 0]
    /\ InitClient

Serve(req) ==
    LET o == Run(DB(inventories, ledger, transfers), req)
    IN  /\ Len(o.db.led) <= MaxLedger
        /\ inventories' = o.db.inv
        /\ ledger' = o.db.led
        /\ transfers' = o.db.tr
        /\ last' = Summary(o.pr)
        /\ acct' = Account(acct, o.pr)
        /\ UNCHANGED procs
        /\ UNCHANGED clientVars

AdjustStock ==
    \E v \in Variants, s \in StockedStores, a \in AdjustActions, q \in Quantities :
        Serve(adjustRequest(ServeId, v, s, a, q))

\* one line at the one unit cost, no freight; SpecR receives whole events
ReceivePurchase ==
    \E v \in Variants, s \in StockedStores, q \in Quantities :
        Serve(receiveRequest(ServeId, v, s, <<Line(q, UnitCost)>>, 0))

CreateTransfer ==
    /\ Len(transfers) < MaxTransfers
    /\ \E from \in Stores, to \in Stores, v \in Variants, q \in Quantities,
          st \in InitialStatuses, n \in StoreNotes, f \in BOOLEAN :
          Serve(storeRequest(ServeId, from, to, v, q, st, n, f))

UpdateTransferStatus ==
    \E t \in 1 .. MaxTransfers, st \in Statuses, n \in UpdateNotes, f \in BOOLEAN :
        Serve(updateStatusRequest(ServeId, t, st, n, f))

CancelTransfer ==
    \E t \in 1 .. MaxTransfers, f \in BOOLEAN :
        Serve(cancelRequest(ServeId, t, f))

Next ==
    \/ AdjustStock
    \/ ReceivePurchase
    \/ CreateTransfer
    \/ UpdateTransferStatus
    \/ CancelTransfer

Spec == Init /\ [][Next]_vars

----------------------------------------------------------------------------
(* SpecV: the operations that take a quantity, served one after another    *)
(* with quantities around zero, negative ones included.                    *)

\* the quantities submitted in SpecV
SubmittedQuantities == -1 .. 1

AdjustStockV ==
    \E v \in Variants, s \in StockedStores, a \in AdjustActions,
       q \in SubmittedQuantities :
        Serve(adjustRequest(ServeId, v, s, a, q))

ReceivePurchaseV ==
    \E v \in Variants, s \in StockedStores, q1 \in SubmittedQuantities,
       q2 \in SubmittedQuantities, n \in 1 .. 2 :
        Serve(receiveRequest(ServeId, v, s,
                             SubSeq(<<Line(q1, UnitCost), Line(q2, UnitCost)>>, 1, n), 0))

CreateTransferV ==
    /\ Len(transfers) < MaxTransfers
    /\ \E from \in Stores, to \in Stores, v \in Variants, q \in SubmittedQuantities,
          st \in InitialStatuses :
          Serve(storeRequest(ServeId, from, to, v, q, st, <<>>, FALSE))

NextV ==
    \/ AdjustStockV
    \/ ReceivePurchaseV
    \/ CreateTransferV

SpecV == Init /\ [][NextV]_vars

----------------------------------------------------------------------------
(* SpecC: a transfer request in progress while adjustments are served.    *)
(* Every statement of the request is one step and works on the database as *)
(* it is at that moment: the controller takes no lock (no lockForUpdate,   *)
(* no sharedLock), so nothing in it keeps an adjustment from being served  *)
(* between two of its statements.  An adjustment is one unit of work of    *)
(* the stock service and stays one step.  The transfer requests are the    *)
(* well-formed ones without notes and without an injected credit failure;  *)
(* Spec covers the others.                                                 *)

Creating == {p \in Procs : procs[p].op = "createTransfer"}

BeginCreateTransfer(p) ==
    /\ procs[p].pc = "idle"
    /\ Len(transfers) + Cardinality(Creating) < MaxTransfers
    /\ \E from \in Stores, to \in Stores, v \in Variants, q \in 1 .. MaxQty,
          st \in InitialStatuses :
          /\ from # to
          /\ procs' = [procs EXCEPT ![p] = storeRequest(p, from, to, v, q, st, <<>>, FALSE)]
    /\ UNCHANGED <<inventories, ledger, transfers, last, acct>>
    /\ UNCHANGED clientVars

BeginUpdateTransferStatus(p) ==
    /\ procs[p].pc = "idle"
    /\ \E t \in 1 .. MaxTransfers, st \in Statuses :
          procs' = [procs EXCEPT ![p] = updateStatusRequest(p, t, st, <<>>, FALSE)]
    /\ UNCHANGED <<inventories, ledger, transfers, last, acct>>
    /\ UNCHANGED clientVars

BeginCancelTransfer(p) ==
    /\ procs[p].pc = "idle"
    /\ \E t \in 1 .. MaxTransfers :
          procs' = [procs EXCEPT ![p] = cancelRequest(p, t, FALSE)]
    /\ UNCHANGED <<inventories, ledger, transfers, last, acct>>
    /\ UNCHANGED clientVars

\* the next statement of request p; a request that ends is accounted for in `acct`
\* (`last` describes requests served one at a time and is left alone here).
Proceed(p) ==
    /\ procs[p].pc # "idle"
    /\ LET o == Step(DB(inventories, ledger, transfers), procs[p])
       IN  /\ Len(o.db.led) <= MaxLedger
           /\ inventories' = o.db.inv
           /\ ledger' = o.db.led
           /\ transfers' = o.db.tr
           /\ IF o.pr.pc = "done"
              THEN /\ acct' = Account(acct, o.pr)
                   /\ procs' = [procs EXCEPT ![p] = Idle]
              ELSE /\ procs' = [procs EXCEPT ![p] = o.pr]
                   /\ UNCHANGED acct
           /\ UNCHANGED last
           /\ UNCHANGED clientVars

\* an adjustment served while transfer requests are in progress
AdjustMeanwhile ==
    \E v \in Variants, s \in StockedStores, a \in AdjustActions, q \in 1 .. MaxQty :
        LET o == Run(DB(inventories, ledger, transfers), adjustRequest(ServeId, v, s, a, q))
        IN  /\ Len(o.db.led) <= MaxLedger
            /\ inventories' = o.db.inv
            /\ ledger' = o.db.led
            /\ transfers' = o.db.tr
            /\ acct' = Account(acct, o.pr)
            /\ UNCHANGED <<last, procs>>
            /\ UNCHANGED clientVars

NextC ==
    \/ AdjustMeanwhile
    \/ \E p \in Procs : BeginCreateTransfer(p)
    \/ \E p \in Procs : BeginUpdateTransferStatus(p)
    \/ \E p \in Procs : BeginCancelTransfer(p)
    \/ \E p \in Procs : Proceed(p)

SpecC == Init /\ [][NextC]_vars

----------------------------------------------------------------------------
(* SpecL: a createTransfer in progress, statement by statement, while      *)
(* adjustments are served at either store: both create the record of a     *)
(* pair that has none.                                                     *)

AdjustAnywhere ==
    \E v \in Variants, s \in Stores, a \in AdjustActions, q \in 1 .. MaxQty :
        LET o == Run(DB(inventories, ledger, transfers), adjustRequest(ServeId, v, s, a, q))
        IN  /\ Len(o.db.led) <= MaxLedger
            /\ inventories' = o.db.inv
            /\ ledger' = o.db.led
            /\ transfers' = o.db.tr
            /\ acct' = Account(acct, o.pr)
            /\ UNCHANGED <<last, procs>>
            /\ UNCHANGED clientVars

NextL ==
    \/ AdjustAnywhere
    \/ \E p \in Procs : BeginCreateTransfer(p)
    \/ \E p \in Procs : Proceed(p)

SpecL == Init /\ [][NextL]_vars

----------------------------------------------------------------------------
(* SpecR: receiving events of several lines with freight, in minor units,  *)
(* with debits between them.                                               *)

MaxLines == 3

ReceivedQuantities == {5, 10}
UnitCosts == {10000, 11000}
Freights == {0, 5, 5000}

\* the receiving events submitted: one to MaxLines lines
ReceivingLines ==
    UNION {[1 .. n -> {Line(q, c) : q \in ReceivedQuantities, c \in UnitCosts}] :
             n \in 1 .. MaxLines}

ReceiveEvent ==
    \E v \in Variants, s \in StockedStores, lines \in ReceivingLines, f \in Freights :
        Serve(receiveRequest(ServeId, v, s, lines, f))

DebitBetween ==
    \E v \in Variants, s \in StockedStores, q \in ReceivedQuantities :
        Serve(adjustRequest(ServeId, v, s, "reduce", q))

NextR ==
    \/ ReceiveEvent
    \/ DebitBetween

SpecR == Init /\ [][NextR]_vars

----------------------------------------------------------------------------
(* SpecP: two requests for the same transfer at the same time.  The        *)
(* transfer exists, pending or in transit, before either begins; each      *)
(* request reads it (findOrFail, a plain read) before either writes, and   *)
(* from there the statements of the two interleave.  A statement that      *)
(* writes a row the other request has written and not committed waits for  *)
(* that request to end, as the rows of one table do under a transaction.   *)

Pair == {1, 2}

\* the database after the requests that set the scene were served
Staged(stock, quantity, sent) ==
    LET d1 == Run(DB(<<>>, <<>>, <<>>),
                  adjustRequest(ServeId, 1, 1, "add", stock)).db
        d2 == Run(d1, storeRequest(ServeId, 1, 2, 1, quantity, STATUS_PENDING,
                                   <<>>, FALSE)).db
    IN  IF sent
        THEN Run(d2, updateStatusRequest(ServeId, 1, STATUS_IN_TRANSIT, <<>>, FALSE)).db
        ELSE d2

InitP ==
    \E stock \in 1 .. MaxQty, quantity \in 1 .. MaxQty, sent \in BOOLEAN :
        LET db == Staged(stock, quantity, sent)
        IN  /\ Len(db.tr) = MaxTransfers
            /\ inventories = db.inv
            /\ ledger = db.led
            /\ transfers = db.tr
            /\ last = Summary(Idle)
            /\ procs = [p \in Pair |-> Idle]
            /\ acct = [k \in Keys |-> 0]
            /\ InitClient

BeginUpdateTransferStatusP(p) ==
    /\ procs[p].pc = "idle"
    /\ \E t \in 1 .. MaxTransfers, st \in Statuses :
          procs' = [procs EXCEPT ![p] = updateStatusRequest(p, t, st, <<>>, FALSE)]
    /\ UNCHANGED <<inventories, ledger, transfers, last, acct>>
    /\ UNCHANGED clientVars

BeginCancelTransferP(p) ==
    /\ procs[p].pc = "idle"
    /\ \E t \in 1 .. MaxTransfers :
          procs' = [procs EXCEPT ![p] = cancelRequest(p, t, FALSE)]
    /\ UNCHANGED <<inventories, ledger, transfers, last, acct>>
    /\ UNCHANGED clientVars

\* the read of the transfer that opens updateStatus and cancel
Reads(pr) == pr.pc \in {"us_find", "cn_find"}

Running(pr) == pr.pc \notin {"idle", "finished"}

\* the stock record the next statement of pr works on
RecordOf(pr) ==
    IF pr.pc \in {"it_from", "it_reduce", "it_retag", "ct_from", "ct_reduce", "ct_comp",
                  "ct_retag_from", "rs_from", "rs_add", "rs_retag"}
    THEN {Key(pr.variant, pr.from)}
    ELSE IF pr.pc \in {"ct_to", "ct_add", "ct_retag_to", "cf_to", "cf_add", "cf_retag"}
         THEN {Key(pr.variant, pr.to)}
         ELSE {}

\* the next statement of pr writes nothing the other request holds
Unlocked(pr) ==
    /\ \A k \in RecordOf(pr) :
          \A i \in EntriesOf(ledger, k) : ledger[i].tx \in {NoTx, pr.id}
    /\ pr.pc \in {"us_save", "us_catch", "cn_save"}
         => \A q \in Pair \ {pr.id} :
               \A i \in 1 .. Len(procs[q].undo) : procs[q].undo[i].tid # pr.tid

\* the next statement of request p; a request that ended stays as it ended
ProceedP(p) ==
    /\ Running(procs[p])
    /\ Reads(procs[p]) \/ \A q \in Pair : Running(procs[q]) => ~Reads(procs[q])
    /\ Reads(procs[p]) \/ \A q \in Pair : procs[q].pc # "idle"
    /\ Unlocked(procs[p])
    /\ LET o == Step(DB(inventories, ledger, transfers), procs[p])
       IN  /\ inventories' = o.db.inv
           /\ ledger' = o.db.led
           /\ transfers' = o.db.tr
           /\ procs' = [procs EXCEPT ![p] =
                          IF o.pr.pc = "done"
                          THEN [o.pr EXCEPT !.pc = "finished", !.undo = <<>>]
                          ELSE o.pr]
           /\ UNCHANGED <<last, acct>>
           /\ UNCHANGED clientVars

NextP ==
    \/ \E p \in Pair : BeginUpdateTransferStatusP(p)
    \/ \E p \in Pair : BeginCancelTransferP(p)
    \/ \E p \in Pair : ProceedP(p)

SpecP == InitP /\ [][NextP]_vars

----------------------------------------------------------------------------
(* SpecT: calls of getTokenSmart and clearTokenCache, and the steps of the *)
(* session fetches they start.  The client runs on one thread: a call runs *)
(* to its first await in one step, a fetch goes on when its import or its  *)
(* getSession request settles.                                             *)

MaxCalls == 3
MaxFetches == 3
MaxClears == 2

\* what a getSession request can come back with
Outcomes == {"token", "none", "error"}

\* a getTokenSmart call: `fetch` is the promise it waits on (NoPromise: it was served
\* from the cache), `started` whether it began that fetch
aCall(fetch, started, settled, token) ==
    [clears |-> clears, fetch |-> fetch, started |-> started, settled |-> settled,
     token |-> token]

\* getTokenSmart up to its return: the cached token, the promise in progress, or a
\* new promise whose body has run up to `await import(...)`
getTokenSmart ==
    /\ Len(callers) < MaxCalls
    /\ IF cachedToken # NoToken
       THEN /\ callers' = Append(callers, aCall(NoPromise, FALSE, TRUE, cachedToken))
            /\ UNCHANGED <<cachedToken, tokenPromise, fetches>>
       ELSE IF tokenPromise # NoPromise
            THEN /\ callers' = Append(callers, aCall(tokenPromise, FALSE, FALSE, NoToken))
                 /\ UNCHANGED <<cachedToken, tokenPromise, fetches>>
            ELSE /\ Len(fetches) < MaxFetches
                 /\ fetches' = Append(fetches, [stage |-> "import", clears |-> clears,
                                                token |-> NoToken])
                 /\ tokenPromise' = Len(fetches) + 1
                 /\ callers' = Append(callers, aCall(Len(fetches) + 1, TRUE, FALSE, NoToken))
                 /\ UNCHANGED cachedToken
    /\ UNCHANGED clears

\* the import settled: getSession() is called, its request is under way
getSessionCalled(f) ==
    /\ fetches[f].stage = "import"
    /\ fetches' = [fetches EXCEPT ![f].stage = "session"]
    /\ UNCHANGED <<cachedToken, tokenPromise, callers, clears>>

\* the promise of fetch f settles with `token`: every call waiting on it gets it
Settle(f, token) ==
    [i \in 1 .. Len(callers) |->
        IF callers[i].fetch = f /\ ~callers[i].settled
        THEN [callers[i] EXCEPT !.settled = TRUE, !.token = token]
        ELSE callers[i]]

\* the request came back: cachedToken = session?.user?.apiToken || null, or the catch
\* block; then finally { tokenPromise = null }
getSessionSettled(f, outcome) ==
    /\ fetches[f].stage = "session"
    /\ LET token == IF outcome = "token" THEN f ELSE NoToken
       IN  /\ fetches' = [fetches EXCEPT ![f].stage = "settled", ![f].token = token]
           /\ cachedToken' = IF outcome = "error" THEN cachedToken ELSE token
           /\ callers' = Settle(f, token)
    /\ tokenPromise' = NoPromise
    /\ UNCHANGED clears

\* cachedToken = null; tokenPromise = null
clearTokenCache ==
    /\ clears < MaxClears
    /\ cachedToken' = NoToken
    /\ tokenPromise' = NoPromise
    /\ clears' = clears + 1
    /\ UNCHANGED <<fetches, callers>>

NextT ==
    \/ getTokenSmart /\ UNCHANGED serverVars
    \/ clearTokenCache /\ UNCHANGED serverVars
    \/ \E f \in 1 .. Len(fetches) : getSessionCalled(f) /\ UNCHANGED serverVars
    \/ \E f \in 1 .. Len(fetches), outcome \in Outcomes :
          getSessionSettled(f, outcome) /\ UNCHANGED serverVars

SpecT == Init /\ [][NextT]_vars

----------------------------------------------------------------------------
(* Vocabulary of the properties *)

Terminal == {STATUS_COMPLETED, STATUS_CANCELLED}

Quantity(k) == IF k \in DOMAIN inventories THEN inventories[k].quantity ELSE 0

SourceOf(t) == Key(transfers[t].product_variant_id, transfers[t].from_store_id)

DestinationOf(t) == Key(transfers[t].product_variant_id, transfers[t].to_store_id)

\* the net of the ledger deltas related to transfer t on one stock record
NetOfTransfer(t, k) ==
    SumDeltas(SelectSeq(ledger, LAMBDA e : e.transfer = t /\ e.inv = k))

\* this step appended exactly one entry and changed none of the earlier ones
AppendedOne == Len(ledger') = Len(ledger) + 1 /\ SubSeq(ledger', 1, Len(ledger)) = ledger

NoMutation == UNCHANGED <<inventories, ledger, transfers>>

\* C1: in every state reached by adjustStock, createTransfer, updateTransferStatus,
\* cancelTransfer and receivePurchase calls, successful or failed, the quantity of each
\* stock record is the sum of the deltas of the ledger entries of its (variant, store)
\* pair, and every ledger entry belongs to an existing record.
C1_QuantityIsLedgerSum ==
    /\ \A k \in DOMAIN inventories :
          inventories[k].quantity = SumDeltas(LedgerOf(ledger, k))
    /\ \A i \in 1 .. Len(ledger) : ledger[i].inv \in DOMAIN inventories

\* a record credited and debited, seen right after a transfer that was rolled back
C1_Witness ==
    /\ last.result = "TransferFailed"
    /\ \E k \in DOMAIN inventories :
          /\ inventories[k].quantity > 0
          /\ \E i, j \in EntriesOf(ledger, k) : ledger[i].delta > 0 /\ ledger[j].delta < 0

\* C2: no stock record ever has a negative quantity, and a transfer operation
\* (createTransfer or a transition) only asks for a debit the source can bear: none
\* of its debits is refused by the stock service.
C2_NeverNegative ==
    /\ \A k \in DOMAIN inventories : inventories[k].quantity >= 0
    /\ last.op \in {"createTransfer", "updateTransferStatus", "cancelTransfer"}
          => \A i \in 1 .. Len(last.calls) :
                last.calls[i][1] = "reduceStock" => last.calls[i][4]

\* a transition debited the source down to exactly zero
C2_Witness ==
    /\ last.op = "updateTransferStatus"
    /\ last.result = "ok"
    /\ last.calls # <<>>
    /\ last.calls[1][1] = "reduceStock"
    /\ last.calls[1][3] = MaxQty
    /\ Quantity(SourceOf(last.tid)) = 0

\* C3: a completed or cancelled transfer record never changes again, and an
\* updateTransferStatus request from a terminal status to a different one fails with
\* InvalidStateTransition and leaves transfers, stock records and ledger unchanged.
C3_TerminalIsFinal ==
    [][/\ \A t \in 1 .. Len(transfers) :
             transfers[t].status \in Terminal
                => Len(transfers') >= t /\ transfers'[t] = transfers[t]
       /\ (/\ last'.op = "updateTransferStatus"
           /\ last'.old \in Terminal
           /\ last'.new # last'.old)
             => last'.result = "InvalidStateTransition" /\ NoMutation]_vars

\* a cancelled transfer was asked to change status and the request was refused
C3_Witness ==
    /\ last.op = "updateTransferStatus"
    /\ last.old = STATUS_CANCELLED
    /\ last.new = STATUS_IN_TRANSIT
    /\ last.result = "InvalidStateTransition"

\* C4: between operations, the ledger deltas related to a transfer of quantity q net
\* to 0 at source and destination while it is pending or cancelled, to -q at the
\* source and 0 at the destination while in_transit, and to -q and +q once completed.
C4_NoHalfAppliedTransfer ==
    \A t \in 1 .. Len(transfers) :
        LET q == transfers[t].quantity
            s == NetOfTransfer(t, SourceOf(t))
            d == NetOfTransfer(t, DestinationOf(t))
        IN  CASE transfers[t].status \in {STATUS_PENDING, STATUS_CANCELLED} ->
                    s = 0 /\ d = 0
              [] transfers[t].status = STATUS_IN_TRANSIT -> s = -q /\ d = 0
              [] transfers[t].status = STATUS_COMPLETED -> s = -q /\ d = q

\* the request just served went pending -> completed (or created a completed
\* transfer), debited the source and then failed to credit the destination
CreditFailedAfterDebit(l) ==
    /\ \/ l.op = "createTransfer" /\ l.new = STATUS_COMPLETED
       \/ /\ l.op = "updateTransferStatus"
          /\ l.old = STATUS_PENDING
          /\ l.new = STATUS_COMPLETED
    /\ Len(l.calls) >= 2
    /\ l.calls[1][1] = "reduceStock" /\ l.calls[1][2] = "from" /\ l.calls[1][4]
    /\ l.calls[2][1] = "addStock" /\ l.calls[2][2] = "to" /\ ~l.calls[2][4]

\* C5: when, on the pending -> completed path, the destination credit fails after
\* the source debit succeeded, the source is credited back the same quantity, the
\* operation fails with TransferFailed, and transfers (so the status), stock records
\* (so the source quantity) and ledger are as before the operation.
C5_CompensatedFailure ==
    [][CreditFailedAfterDebit(last')
          => /\ Len(last'.calls) = 3
             /\ last'.calls[3] = <<"addStock", "from", last'.calls[1][3], TRUE>>
             /\ last'.result = "TransferFailed"
             /\ NoMutation]_vars

\* updateTransferStatus(completed) on a pending transfer ended in TransferFailed
C5_Witness ==
    /\ CreditFailedAfterDebit(last)
    /\ last.op = "updateTransferStatus"
    /\ last.result = "TransferFailed"

AllowedTransitions ==
    {<<STATUS_PENDING, STATUS_IN_TRANSIT>>, <<STATUS_PENDING, STATUS_COMPLETED>>,
     <<STATUS_IN_TRANSIT, STATUS_COMPLETED>>, <<STATUS_PENDING, STATUS_CANCELLED>>,
     <<STATUS_IN_TRANSIT, STATUS_CANCELLED>>}

\* C8: the status of a transfer record only changes along pending -> in_transit,
\* pending -> completed, in_transit -> completed, pending -> cancelled and
\* in_transit -> cancelled; never from in_transit back to pending.
C8_OnlyLifecycleTransitions ==
    [][\A t \in 1 .. Len(transfers) :
          (t <= Len(transfers') /\ transfers'[t].status # transfers[t].status)
             => <<transfers[t].status, transfers'[t].status>> \in AllowedTransitions]_vars

\* C9: every step that takes a transfer from in_transit to cancelled credits the
\* source back the full quantity with one ledger entry of type transfer-cancel.
C9_CancelInTransitCreditsSource ==
    [][\A t \in 1 .. Len(transfers) :
          (/\ t <= Len(transfers')
           /\ transfers[t].status = STATUS_IN_TRANSIT
           /\ transfers'[t].status = STATUS_CANCELLED)
             => /\ SourceOf(t) \in DOMAIN inventories'
                /\ inventories'[SourceOf(t)].quantity
                      = Quantity(SourceOf(t)) + transfers[t].quantity
                /\ AppendedOne
                /\ ledger'[Len(ledger')].inv = SourceOf(t)
                /\ ledger'[Len(ledger')].delta = transfers[t].quantity
                /\ ledger'[Len(ledger')].type = TYPE_TRANSFER_CANCEL]_vars

\* C10: updateTransferStatus(in_transit) on a pending transfer of quantity q whose
\* source holds at least q succeeds and sets the status to in_transit; the step
\* lowers the source quantity by exactly q, leaves the destination record as it was
\* (absent if it was absent) and appends exactly one ledger entry: type transfer-out,
\* on the source, delta -q.
C10_PendingToInTransit ==
    [][\A t \in 1 .. Len(transfers) :
          /\ (/\ last'.op = "updateTransferStatus"
              /\ last'.tid = t
              /\ last'.old = STATUS_PENDING
              /\ last'.new = STATUS_IN_TRANSIT
              /\ transfers[t].status = STATUS_PENDING
              /\ Quantity(SourceOf(t)) >= transfers[t].quantity)
                => /\ last'.result = "ok"
                   /\ transfers'[t].status = STATUS_IN_TRANSIT
          /\ (/\ transfers[t].status = STATUS_PENDING
              /\ transfers'[t].status = STATUS_IN_TRANSIT)
                => /\ inventories'[SourceOf(t)].quantity
                         = Quantity(SourceOf(t)) - transfers[t].quantity
                   /\ (DestinationOf(t) \in DOMAIN inventories')
                         = (DestinationOf(t) \in DOMAIN inventories)
                   /\ DestinationOf(t) \in DOMAIN inventories
                         => inventories'[DestinationOf(t)] = inventories[DestinationOf(t)]
                   /\ AppendedOne
                   /\ ledger'[Len(ledger')].inv = SourceOf(t)
                   /\ ledger'[Len(ledger')].delta = -transfers[t].quantity
                   /\ ledger'[Len(ledger')].type = TYPE_TRANSFER_OUT
                   /\ ledger'[Len(ledger')].transfer = t]_vars

\* a pending transfer of the largest quantity has just been put in transit
C10_Witness ==
    /\ last.op = "updateTransferStatus"
    /\ last.old = STATUS_PENDING
    /\ last.new = STATUS_IN_TRANSIT
    /\ last.result = "ok"
    /\ transfers[last.tid].status = STATUS_IN_TRANSIT
    /\ transfers[last.tid].quantity = MaxQty

\* the net movement of the stock calls of the requests still in progress
RECURSIVE NetOfAll(_, _)
NetOfAll(S, k) ==
    IF S = {} THEN 0
    ELSE LET p == CHOOSE q \in S : TRUE
         IN  NetOf(procs[p].calls, k) + NetOfAll(S \ {p}, k)

InProgress(k) == NetOfAll(Procs, k)

\* C6: the type of a ledger entry is the type its writer supplied: a committed entry
\* carries a transfer type exactly when a transfer's own debit or credit wrote it, so
\* no entry written by another operation is retagged, whatever is served in between.
C6_TypeIsWritersType ==
    \A i \in 1 .. Len(ledger) :
        ledger[i].tx = NoTx => (ledger[i].type \in TransferTypes <=> ledger[i].transfer # 0)

NoCallFailed(l) == \A i \in 1 .. Len(l.calls) : l.calls[i][4]

\* the destination record of transfer t is the same before and after the step
DestinationUntouched(t) ==
    /\ (DestinationOf(t) \in DOMAIN inventories') = (DestinationOf(t) \in DOMAIN inventories)
    /\ DestinationOf(t) \in DOMAIN inventories
          => inventories'[DestinationOf(t)] = inventories[DestinationOf(t)]

\* C11: cancelTransfer on an in_transit transfer of quantity q (its credit not being
\* refused) succeeds, sets the status to cancelled, raises the source quantity by
\* exactly q, appends exactly one ledger entry, of type transfer-cancel, on the source
\* with delta q, and leaves the destination record as it was with no entry for it.
C11_CancelInTransit ==
    [][\A t \in 1 .. Len(transfers) :
          (/\ last'.op = "cancelTransfer"
           /\ last'.tid = t
           /\ transfers[t].status = STATUS_IN_TRANSIT
           /\ NoCallFailed(last'))
             => /\ last'.result = "ok"
                /\ transfers'[t].status = STATUS_CANCELLED
                /\ SourceOf(t) \in DOMAIN inventories'
                /\ inventories'[SourceOf(t)].quantity
                      = Quantity(SourceOf(t)) + transfers[t].quantity
                /\ DestinationUntouched(t)
                /\ AppendedOne
                /\ ledger'[Len(ledger')].inv = SourceOf(t)
                /\ ledger'[Len(ledger')].delta = transfers[t].quantity
                /\ ledger'[Len(ledger')].type = TYPE_TRANSFER_CANCEL
                /\ ledger'[Len(ledger')].transfer = t]_vars

\* an in_transit transfer of the largest quantity has just been cancelled
C11_Witness ==
    /\ last.op = "cancelTransfer"
    /\ last.old = STATUS_IN_TRANSIT
    /\ last.result = "ok"
    /\ transfers[last.tid].status = STATUS_CANCELLED
    /\ transfers[last.tid].quantity = MaxQty
    /\ ledger[Len(ledger)].type = TYPE_TRANSFER_CANCEL

\* the request just served completed transfer t in one go: pending -> completed, or
\* created as completed
CompletedAtOnce(l, t) ==
    /\ l.tid = t
    /\ l.result = "ok"
    /\ l.new = STATUS_COMPLETED
    /\ \/ l.op = "createTransfer"
       \/ l.op = "updateTransferStatus" /\ l.old = STATUS_PENDING

\* C12: a successful pending -> completed transition of a transfer of quantity q, and
\* a successful createTransfer with initial status completed, lower the source
\* quantity by q and raise the destination quantity by q in one step that appends
\* exactly two ledger entries: a transfer-out of -q on the source and a transfer-in of
\* +q on the destination, both carrying the transfer id.
C12_CompletedMovesBoth ==
    [][\A t \in 1 .. Len(transfers') :
          CompletedAtOnce(last', t)
             => LET rec == transfers'[t]
                    src == Key(rec.product_variant_id, rec.from_store_id)
                    dst == Key(rec.product_variant_id, rec.to_store_id)
                    n == Len(ledger)
                IN  /\ rec.status = STATUS_COMPLETED
                    /\ inventories'[src].quantity = Quantity(src) - rec.quantity
                    /\ inventories'[dst].quantity = Quantity(dst) + rec.quantity
                    /\ \A k \in DOMAIN inventories \ {src, dst} :
                          inventories'[k] = inventories[k]
                    /\ Len(ledger') = n + 2
                    /\ SubSeq(ledger', 1, n) = ledger
                    /\ ledger'[n + 1].inv = src
                    /\ ledger'[n + 1].delta = -rec.quantity
                    /\ ledger'[n + 1].type = TYPE_TRANSFER_OUT
                    /\ ledger'[n + 1].transfer = t
                    /\ ledger'[n + 2].inv = dst
                    /\ ledger'[n + 2].delta = rec.quantity
                    /\ ledger'[n + 2].type = TYPE_TRANSFER_IN
                    /\ ledger'[n + 2].transfer = t]_vars

\* a pending transfer has just been completed by updateTransferStatus
C12_Witness ==
    /\ last.op = "updateTransferStatus"
    /\ last.old = STATUS_PENDING
    /\ last.new = STATUS_COMPLETED
    /\ last.result = "ok"
    /\ transfers[last.tid].status = STATUS_COMPLETED
    /\ Quantity(DestinationOf(last.tid)) = transfers[last.tid].quantity

\* C13: the step that takes a transfer of quantity q from in_transit to completed
\* credits only the destination: its quantity rises by q with exactly one appended
\* entry, a transfer-in of +q on the destination carrying the transfer id, while the
\* source record and every earlier ledger entry (so all entries of the source) stay
\* as they were: the debit made on pending -> in_transit remains the only one.
C13_InTransitToCompleted ==
    [][\A t \in 1 .. Len(transfers) :
          (/\ t <= Len(transfers')
           /\ transfers[t].status = STATUS_IN_TRANSIT
           /\ transfers'[t].status = STATUS_COMPLETED)
             => /\ DestinationOf(t) \in DOMAIN inventories'
                /\ inventories'[DestinationOf(t)].quantity
                      = Quantity(DestinationOf(t)) + transfers[t].quantity
                /\ SourceOf(t) \in DOMAIN inventories
                /\ inventories'[SourceOf(t)] = inventories[SourceOf(t)]
                /\ AppendedOne
                /\ ledger'[Len(ledger')].inv = DestinationOf(t)
                /\ ledger'[Len(ledger')].delta = transfers[t].quantity
                /\ ledger'[Len(ledger')].type = TYPE_TRANSFER_IN
                /\ ledger'[Len(ledger')].transfer = t
                /\ LedgerOf(ledger', SourceOf(t)) = LedgerOf(ledger, SourceOf(t))]_vars

\* a transfer went pending -> in_transit -> completed: one debit, one credit
C13_Witness ==
    /\ last.op = "updateTransferStatus"
    /\ last.old = STATUS_IN_TRANSIT
    /\ last.new = STATUS_COMPLETED
    /\ last.result = "ok"
    /\ transfers[last.tid].status = STATUS_COMPLETED
    /\ NetOfTransfer(last.tid, SourceOf(last.tid)) = -transfers[last.tid].quantity
    /\ NetOfTransfer(last.tid, DestinationOf(last.tid)) = transfers[last.tid].quantity

\* C14: cancelling a pending transfer succeeds and sets its status to cancelled, and
\* the step that takes a transfer from pending to cancelled changes no stock record
\* and appends (or alters) no ledger entry.
C14_CancelPending ==
    [][\A t \in 1 .. Len(transfers) :
          /\ (/\ last'.op = "cancelTransfer"
              /\ last'.tid = t
              /\ transfers[t].status = STATUS_PENDING)
                => /\ last'.result = "ok"
                   /\ transfers'[t].status = STATUS_CANCELLED
          /\ (/\ t <= Len(transfers')
              /\ transfers[t].status = STATUS_PENDING
              /\ transfers'[t].status = STATUS_CANCELLED)
                => UNCHANGED <<inventories, ledger>>]_vars

\* a pending transfer whose source holds stock has just been cancelled
C14_Witness ==
    /\ last.op = "cancelTransfer"
    /\ last.old = STATUS_PENDING
    /\ last.result = "ok"
    /\ transfers[last.tid].status = STATUS_CANCELLED
    /\ Quantity(SourceOf(last.tid)) >= transfers[last.tid].quantity
    /\ ledger # <<>>

\* C15: updateTransferStatus to in_transit or to completed on a pending transfer whose
\* quantity exceeds the current source quantity fails with InsufficientStock, and the
\* step leaves transfers (so the status is still pending), stock records and ledger
\* exactly as they were.
C15_InsufficientOnTransition ==
    [][\A t \in 1 .. Len(transfers) :
          (/\ last'.op = "updateTransferStatus"
           /\ last'.tid = t
           /\ last'.new \in {STATUS_IN_TRANSIT, STATUS_COMPLETED}
           /\ transfers[t].status = STATUS_PENDING
           /\ Quantity(SourceOf(t)) < transfers[t].quantity)
             => /\ last'.result = "InsufficientStock"
                /\ last'.calls = <<>>
                /\ NoMutation]_vars

\* a pending transfer of 2 with 1 in stock at the source was asked to complete
C15_Witness ==
    /\ last.op = "updateTransferStatus"
    /\ last.old = STATUS_PENDING
    /\ last.new = STATUS_COMPLETED
    /\ last.result = "InsufficientStock"
    /\ transfers[last.tid].status = STATUS_PENDING
    /\ Quantity(SourceOf(last.tid)) > 0
    /\ Quantity(SourceOf(last.tid)) < transfers[last.tid].quantity

\* C16: a well-formed createTransfer whose quantity exceeds the current quantity of the
\* source (0 where the source has no record) fails with InsufficientStock whatever the
\* initial status, and the step creates no transfer record and creates or changes no
\* stock record and no ledger entry at any location.
C16_CreateInsufficient ==
    [][(/\ last'.op = "createTransfer"
        /\ last'.quantity >= 1
        /\ last'.from # last'.to
        /\ last'.new \in InitialStatuses
        /\ last'.quantity > Quantity(Key(last'.variant, last'.from)))
          => /\ last'.result = "InsufficientStock"
             /\ last'.calls = <<>>
             /\ NoMutation]_vars

\* a transfer out of a store that has no stock record was refused, and the store
\* still has no record
C16_Witness ==
    /\ last.op = "createTransfer"
    /\ last.result = "InsufficientStock"
    /\ last.new = STATUS_PENDING
    /\ Key(last.variant, last.from) \notin DOMAIN inventories
    /\ transfers = <<>>
    /\ ledger # <<>>

\* C17: updateTransferStatus asking for the status the transfer already has (pending,
\* in_transit, completed or cancelled), with or without notes, succeeds and changes
\* nothing: the transfer record keeps all its fields, notes included, no stock record
\* changes and no ledger entry is appended; so any number of such requests leaves the
\* state that none of them leaves.
C17_SameStatusIsNoOp ==
    [][\A t \in 1 .. Len(transfers) :
          (/\ last'.op = "updateTransferStatus"
           /\ last'.tid = t
           /\ last'.new = transfers[t].status)
             => /\ last'.result = "ok"
                /\ last'.calls = <<>>
                /\ NoMutation]_vars

\* a completed transfer was asked to become completed, and then asked again
C17_Witness ==
    /\ last.op = "updateTransferStatus"
    /\ last.old = STATUS_COMPLETED
    /\ last.new = STATUS_COMPLETED
    /\ last.result = "ok"
    /\ transfers[last.tid].status = STATUS_COMPLETED

\* C18: cancelTransfer on a transfer that is already cancelled is an idempotent
\* no-op: it succeeds, returning the record, and leaves transfers, stock records and
\* ledger unchanged, like a requested transition equal to the current status.
C18_CancelCancelledIsNoOp ==
    [][\A t \in 1 .. Len(transfers) :
          (/\ last'.op = "cancelTransfer"
           /\ last'.tid = t
           /\ transfers[t].status = STATUS_CANCELLED)
             => /\ last'.result = "ok"
                /\ NoMutation]_vars

\* the same ledger entry, whether or not its writer has committed since
SameEntry(e, f) == [e EXCEPT !.tx = NoTx] = [f EXCEPT !.tx = NoTx]

\* the request that wrote the entry ends in this step (an entry it had not committed
\* goes with it when it is rolled back)
WriterEnds(e) ==
    /\ e.tx \in Procs
    /\ procs[e.tx].pc # "idle"
    /\ procs'[e.tx].pc = "idle"

\* C19: the ledger is append-only: an entry, once written, keeps every field (record,
\* delta, resulting quantity, type, transfer) through every later statement of every
\* operation, and is only ever removed with the rollback of the request that wrote it.
C19_LedgerAppendOnly ==
    [][\A i \in 1 .. Len(ledger) :
          \/ \E j \in 1 .. Len(ledger') : SameEntry(ledger'[j], ledger[i])
          \/ WriterEnds(ledger[i]) /\ \A j \in 1 .. Len(ledger') : ledger'[j].tx # ledger[i].tx]_vars

\* the request just served was a well-formed adjustStock with action reduce
AdjustReduce(l) ==
    /\ l.op = "adjustStock"
    /\ l.calls # <<>>
    /\ l.calls[1][1] = "reduceStock"

\* C20: adjustStock with action reduce and a quantity above the current quantity of
\* the pair (0 where it has no record) fails with InsufficientStock and leaves stock
\* records and ledger exactly as they were; with a quantity up to the current one it
\* succeeds, the resulting quantity is current - qty, and one entry records it.
C20_DebitChecksStock ==
    [][AdjustReduce(last')
          => LET k == Key(last'.variant, last'.from)
                 q == last'.quantity
             IN  IF q > Quantity(k)
                 THEN last'.result = "InsufficientStock" /\ NoMutation
                 ELSE /\ last'.result = "ok"
                      /\ inventories'[k].quantity = Quantity(k) - q
                      /\ \A j \in DOMAIN inventories \ {k} : inventories'[j] = inventories[j]
                      /\ AppendedOne
                      /\ ledger'[Len(ledger')].inv = k
                      /\ ledger'[Len(ledger')].delta = -q
                      /\ ledger'[Len(ledger')].after = Quantity(k) - q
                      /\ ledger'[Len(ledger')].type = TYPE_REDUCTION
                      /\ UNCHANGED transfers]_vars

\* a debit of the largest quantity against a stock one short of it was refused
C20_Witness ==
    /\ AdjustReduce(last)
    /\ last.result = "InsufficientStock"
    /\ last.quantity = MaxQty
    /\ Quantity(Key(last.variant, last.from)) = MaxQty - 1

\* C21: adjustStock with action set accepts every target quantity >= 0, 0 included:
\* the request succeeds, the record's quantity is the target afterwards, exactly one
\* adjustment entry is appended whose delta is the target minus the previous quantity,
\* and the record's averageCost is unchanged.
C21_SetAcceptsEveryTarget ==
    [][(last'.op = "adjustStock" /\ last'.action = "set" /\ last'.quantity >= 0)
        => LET k == Key(last'.variant, last'.from)
           IN  /\ last'.result = "ok"
               /\ k \in DOMAIN inventories'
               /\ inventories'[k].quantity = last'.quantity
               /\ AppendedOne
               /\ ledger'[Len(ledger')].inv = k
               /\ ledger'[Len(ledger')].delta = last'.quantity - Quantity(k)
               /\ ledger'[Len(ledger')].type \in {TYPE_ADDITION, TYPE_REDUCTION}
               /\ k \in DOMAIN inventories
                    => inventories'[k].averageCost = inventories[k].averageCost]_vars

\* the same for the targets the validation rule admits
C21_SetAcceptsPositiveTarget ==
    [][(last'.op = "adjustStock" /\ last'.action = "set" /\ last'.quantity >= MinQuantity)
        => LET k == Key(last'.variant, last'.from)
           IN  /\ last'.result = "ok"
               /\ k \in DOMAIN inventories'
               /\ inventories'[k].quantity = last'.quantity
               /\ AppendedOne
               /\ ledger'[Len(ledger')].inv = k
               /\ ledger'[Len(ledger')].delta = last'.quantity - Quantity(k)
               /\ ledger'[Len(ledger')].type \in {TYPE_ADDITION, TYPE_REDUCTION}
               /\ k \in DOMAIN inventories
                    => inventories'[k].averageCost = inventories[k].averageCost]_vars

\* a request whose quantity, where a positive one is required, is zero or negative
NonPositiveQuantity(l) ==
    \/ l.op = "adjustStock" /\ l.action \in {"add", "reduce"} /\ l.quantity <= 0
    \/ l.op = "createTransfer" /\ l.quantity <= 0
    \/ l.op = "receivePurchase" /\ \E i \in 1 .. Len(l.lines) : l.lines[i].quantity <= 0

\* C22: an adjustStock add or reduce, a createTransfer or a receivePurchase with a line
\* whose quantity is 0 or negative is rejected with ValidationError and changes no
\* stock record, no ledger entry and no transfer record.
C22_NonPositiveRejected ==
    [][NonPositiveQuantity(last')
        => last'.result = "ValidationError" /\ NoMutation]_vars

\* a receiving event refused for its second line, the first being in order, on a
\* record that holds stock
C22_Witness ==
    /\ last.op = "receivePurchase"
    /\ Len(last.lines) = 2
    /\ last.lines[1].quantity = 1
    /\ last.lines[2].quantity = -1
    /\ last.result = "ValidationError"
    /\ \E k \in DOMAIN inventories : inventories[k].quantity > 0

Received(l) == l.op = "receivePurchase" /\ l.result = "ok"

\* a is n / d rounded half-up
IsRoundedHalfUp(a, n, d) == 2 * a * d <= 2 * n + d /\ 2 * n + d < 2 * (a + 1) * d

RECURSIVE LandedCost(_)
\* the sum of unitCost * qty + allocatedFreight over the lines
LandedCost(lines) ==
    IF lines = <<>> THEN 0
    ELSE Head(lines).unitCost * Head(lines).quantity + Head(lines).allocatedFreight
           + LandedCost(Tail(lines))

\* the units the receipt entries of the ledger credited to k
ReceivedOn(led, k) ==
    SumDeltas(SelectSeq(led, LAMBDA e : e.inv = k /\ e.type = TYPE_RECEIPT))

CostState(inv, k) ==
    IF k \in DOMAIN inv
    THEN <<inv[k].averageCost, inv[k].cumulativeReceivedQty, inv[k].cumulativeCostAmount>>
    ELSE <<NoCost, NoCost, NoCost>>

\* a debit of q on k that succeeds, followed at once by a credit of q, leaves the
\* quantity and the averageCost of k as they were
DebitCreditRestores(inv, led, tr) ==
    \A k \in DOMAIN inv, q \in 1 .. MaxQty :
        LET d == Run(DB(inv, led, tr), adjustRequest(ServeId, k[1], k[2], "reduce", q))
            c == Run(d.db, adjustRequest(ServeId, k[1], k[2], "add", q))
        IN  d.pr.result = "ok"
              => /\ c.pr.result = "ok"
                 /\ d.db.inv[k].quantity = inv[k].quantity - q
                 /\ c.db.inv[k].quantity = inv[k].quantity
                 /\ c.db.inv[k].averageCost = inv[k].averageCost

\* C26: only receivePurchase changes cost state: every adjustStock (add, reduce, set),
\* createTransfer, updateTransferStatus and cancelTransfer call, compensations
\* included, leaves averageCost, cumulativeReceivedQty and cumulativeCostAmount of every
\* record unchanged (a record it creates has none), and in every reachable state a
\* debit of q followed at once by a credit of q restores the quantity and leaves
\* averageCost unchanged.
C26_OnlyReceiptsChangeCost ==
    [][/\ last'.op # "receivePurchase"
            => \A k \in Keys : CostState(inventories', k) = CostState(inventories, k)
       /\ DebitCreditRestores(inventories', ledger', transfers')]_vars

\* a transfer completed at once out of received stock: the source keeps its average
\* cost, the destination holds units and has no cost state
C26_Witness ==
    /\ last.op = "createTransfer"
    /\ last.result = "ok"
    /\ last.new = STATUS_COMPLETED
    /\ inventories[SourceOf(last.tid)].averageCost = UnitCost
    /\ inventories[SourceOf(last.tid)].cumulativeReceivedQty > Quantity(SourceOf(last.tid))
    /\ Quantity(DestinationOf(last.tid)) > 0
    /\ CostState(inventories, DestinationOf(last.tid)) = <<NoCost, NoCost, NoCost>>

RECURSIVE InTransit(_, _)
\* the units of variant v on their way: the quantities of its transfers in in_transit
InTransit(tr, v) ==
    IF tr = <<>> THEN 0
    ELSE (IF Head(tr).status = STATUS_IN_TRANSIT /\ Head(tr).product_variant_id = v
          THEN Head(tr).quantity ELSE 0) + InTransit(Tail(tr), v)

RECURSIVE OnHand(_, _)
\* the units the records `keys` hold
OnHand(inv, keys) ==
    IF keys = {} THEN 0
    ELSE LET k == CHOOSE x \in keys : TRUE
         IN  inv[k].quantity + OnHand(inv, keys \ {k})

\* the units of variant v in the stores and on their way
Units(inv, tr, v) == OnHand(inv, {k \in DOMAIN inv : k[1] = v}) + InTransit(tr, v)

\* C27: every createTransfer, updateTransferStatus and cancelTransfer call, successful
\* or failed, leaves for each variant the sum of the quantities of its stock records
\* plus the quantities of its in_transit transfers unchanged.
C27_TransfersConserveStock ==
    [][last'.op \in {"createTransfer", "updateTransferStatus", "cancelTransfer"}
        => \A v \in Variants :
              Units(inventories', transfers', v) = Units(inventories, transfers, v)]_vars

\* the committed entries of transfer t on record k whose delta has the sign of `sign`
MovesOf(t, k, sign) ==
    {i \in EntriesOf(ledger, k) :
        ledger[i].transfer = t /\ ledger[i].tx = NoTx /\ ledger[i].delta * sign > 0}

\* C28: when two requests for one transfer run at the same time, both having read
\* its status before either wrote it, the source is debited at most once for the
\* transfer, the destination is credited at most once, and once both have ended with
\* the transfer completed the source has no credit back.
C28_EachEffectAtMostOnce ==
    \A t \in 1 .. Len(transfers) :
        /\ Cardinality(MovesOf(t, SourceOf(t), -1)) <= 1
        /\ Cardinality(MovesOf(t, DestinationOf(t), 1)) <= 1
        /\ (\A p \in Pair : procs[p].pc = "finished")
              /\ transfers[t].status = STATUS_COMPLETED
             => MovesOf(t, SourceOf(t), 1) = {}

\* the fetches begun after `n` calls of clearTokenCache whose getSession request is
\* under way
SessionsInFlight(n) ==
    {f \in 1 .. Len(fetches) : fetches[f].clears = n /\ fetches[f].stage = "session"}

\* C29: of the session fetches begun between two clearTokenCache calls at most one has
\* its getSession request in flight at any time; a call made while no token is cached
\* and a fetch is in progress starts none; and all calls that waited on one fetch
\* received the same token.
C29_OneFetchShared ==
    /\ \A n \in 0 .. MaxClears : Cardinality(SessionsInFlight(n)) <= 1
    /\ \A f \in 1 .. Len(fetches) :
          Cardinality({i \in 1 .. Len(callers) :
                          callers[i].fetch = f /\ callers[i].started}) = 1
    /\ \A i, j \in 1 .. Len(callers) :
          callers[i].fetch # NoPromise /\ callers[i].fetch = callers[j].fetch
            /\ callers[i].settled /\ callers[j].settled
          => callers[i].token = callers[j].token

\* the first getTokenSmart call made after the n-th clearTokenCache
FirstAfterClear(i) ==
    /\ callers[i].clears > 0
    /\ \A j \in 1 .. i - 1 : callers[j].clears < callers[i].clears

\* C30: the first getTokenSmart call after a clearTokenCache starts a new fetch, the
\* cache never holds a token obtained by a fetch that was begun before the latest
\* clearTokenCache, and no call receives a token obtained by a fetch begun before the
\* latest clearTokenCache that preceded the call.
C30_ClearDropsOldFetch ==
    /\ \A i \in 1 .. Len(callers) : FirstAfterClear(i) => callers[i].started
    /\ cachedToken # NoToken => fetches[cachedToken].clears = clears
    /\ \A i \in 1 .. Len(callers) :
          callers[i].settled /\ callers[i].token # NoToken
            => fetches[callers[i].token].clears >= callers[i].clears

====
